---------------------------- MODULE Spec2Model ----------------------------
(***************************************************************************)
(* A model of the macro_machine crate (src/src/lib.rs): the code that      *)
(* declare_machine! generates for a machine declaration -- new, execute,   *)
(* change_state, state, get_inner_context, and per state do_job, enter and *)
(* leave -- applied to the machine declarations found in the crate's       *)
(* documentation and tests.                                                *)
(***************************************************************************)
EXTENDS Integers, Sequences, FiniteSets, TLC

VARIABLES
    def,        \* the machine declaration the instances were generated from
    machine,    \* instance name -> Machine{state, context}; the domain grows with new
    hist,       \* instance name -> history counters of that instance
    last        \* the last call made by the caller, with the hooks it ran

vars == <<def, machine, hist, last>>

---------------------------------------------------------------------------
(* Bounds of the model. *)

\* Calls that returned Ok on one instance before the caller stops calling it.
MaxCalls == 4

\* Largest value given to new for an i16 field of the machine context.
MaxInit == 1

---------------------------------------------------------------------------
(* Values. *)

\* i16 arithmetic as the release build computes it (two's complement wrap).
I16(n) == ((n + 32768) % 65536) - 32768

\* A context struct without fields: `$state {}`.
Unit == <<>>

\* Option<States>.
None == <<>>
Some(x) == <<x>>

\* The extra variant of enum States.
SameState == [tag |-> "__SameState__", context |-> Unit]

\* States::$state{context: ctx}
Variant(s, ctx) == [tag |-> s, context |-> ctx]

\* What a block leaves behind: the state context `self` and the machine context.
Env(ctx, g) == [ctx |-> ctx, g |-> g]

\* One reaction line `$cmd $($callback)* => $($new_state{..})*;` of a state node.
Reaction(s, c, cb, to) == [state |-> s, cmd |-> c, callback |-> cb, target |-> to]

---------------------------------------------------------------------------
(* The machine declarations of the crate. *)

\* Doc example 2: the counter handed from state to state.
Simple2 ==
    [ states    |-> {"A", "B"},
      commands  |-> {"Next"},
      initial   |-> Variant("A", [counter |-> 0]),
      reactions |-> { Reaction("A", "Next", TRUE, <<"B">>),
                      Reaction("B", "Next", TRUE, <<"A">>) } ]

Simple2Callback(s, c, context, g) ==
    Env([context EXCEPT !.counter = I16(context.counter + 1)], g)

Simple2Next(s, c, context, g) ==
    [counter |-> context.counter]

\* Doc example 3: enter and leave hooks on A.
Simple3 ==
    [ states    |-> {"A", "B"},
      commands  |-> {"Next"},
      initial   |-> Variant("A", [counter |-> 0]),
      reactions |-> { Reaction("A", "Next", TRUE, <<"B">>),
                      Reaction("B", "Next", TRUE, <<"A">>) } ]

Simple3Enter(s, context, g) ==
    IF s = "A" THEN Env([context EXCEPT !.counter = I16(context.counter + 1)], g)
               ELSE Env(context, g)

Simple3Leave(s, context, g) ==
    IF s = "A" THEN Env([context EXCEPT !.counter = I16(context.counter + 1)], g)
               ELSE Env(context, g)

Simple3Callback(s, c, context, g) ==
    Env([context EXCEPT !.counter = I16(context.counter + 1)], g)

Simple3Next(s, c, context, g) ==
    [counter |-> context.counter]

\* Doc example 4: the machine scoped context counts the states entered.
Simple4 ==
    [ states    |-> {"A", "B"},
      commands  |-> {"Next"},
      initial   |-> Variant("A", Unit),
      reactions |-> { Reaction("A", "Next", FALSE, <<"B">>),
                      Reaction("B", "Next", FALSE, <<"A">>) } ]

Simple4Enter(s, context, machine_context) ==
    Env(context, [machine_context EXCEPT !.counter = I16(machine_context.counter + 1)])

\* tests::Mach1. Its hooks and callbacks only print.
Mach1 ==
    [ states    |-> {"New", "InConfig", "Operational"},
      commands  |-> {"Configure", "ConfigureDone", "Drop"},
      initial   |-> Variant("New", [x |-> 0]),
      reactions |-> { Reaction("New", "Configure", TRUE, <<"InConfig">>),
                      Reaction("New", "ConfigureDone", FALSE, <<"New">>),
                      Reaction("InConfig", "ConfigureDone", TRUE, <<"Operational">>),
                      Reaction("Operational", "ConfigureDone", FALSE, <<>>),
                      Reaction("Operational", "Drop", FALSE, <<"New">>) } ]

Mach1Next(s, c, context, g) ==
    CASE s = "New" /\ c = "Configure"     -> [x |-> I16(context.x + 1), y |-> 0]
      [] s = "New" /\ c = "ConfigureDone" -> [x |-> 0]
      [] s = "Operational" /\ c = "Drop"  -> [x |-> 0]
      [] OTHER                            -> Unit

\* tests::Mach2: the three state cycle, no contexts, no hooks.
Mach2 ==
    [ states    |-> {"State1", "State2", "State3"},
      commands  |-> {"ToState1", "ToState2", "ToState3"},
      initial   |-> Variant("State1", Unit),
      reactions |-> { Reaction("State1", "ToState2", FALSE, <<"State2">>),
                      Reaction("State2", "ToState3", FALSE, <<"State3">>),
                      Reaction("State3", "ToState1", FALSE, <<"State1">>) } ]

\* tests::Mach3: the cycle with a counter bumped by every leave hook.
Mach3 ==
    [ states    |-> {"State1", "State2", "State3"},
      commands  |-> {"ToState1", "ToState2", "ToState3"},
      initial   |-> Variant("State1", [counter |-> 0]),
      reactions |-> { Reaction("State1", "ToState2", FALSE, <<"State2">>),
                      Reaction("State2", "ToState3", FALSE, <<"State3">>),
                      Reaction("State3", "ToState1", FALSE, <<"State1">>) } ]

Mach3Leave(s, cont, glob_cont) ==
    Env([cont EXCEPT !.counter = I16(cont.counter + 1)], glob_cont)

Mach3Next(s, c, cont, glob_cont) ==
    [counter |-> cont.counter]

\* tests::Mach4: the cycle whose callbacks count in the machine context.
Mach4 ==
    [ states    |-> {"State1", "State2", "State3"},
      commands  |-> {"ToState1", "ToState2", "ToState3"},
      initial   |-> Variant("State1", Unit),
      reactions |-> { Reaction("State1", "ToState2", TRUE, <<"State2">>),
                      Reaction("State2", "ToState3", TRUE, <<"State3">>),
                      Reaction("State3", "ToState1", TRUE, <<"State1">>) } ]

Mach4Callback(s, c, context, inner) ==
    Env(context, [inner EXCEPT !.st.counter = I16(inner.st.counter + 1)])

\* tests::test4: the InnerMachineContext values handed to Mach4::new.
InnerMachineContext(id) ==
    [id |-> id, name |-> <<"Mach 0", "Mach 1", "Mach 2">>[id + 1], counter |-> 0]

(***************************************************************************)
(* A declaration that uses the two reaction forms no machine of the crate  *)
(* uses with a callback: `cmd {code} =>;` in a state with hooks.           *)
(*                                                                         *)
(*   Tally glob{total:i16} (Idle{n:0})                                     *)
(*   states[Idle,Busy]  commands[Tick,Go,Nop]                              *)
(*   (Idle ctx{n:i16}:                                                     *)
(*       >> {glob.total = glob.total+1;}                                   *)
(*       << {ctx.n = ctx.n+1;}                                             *)
(*       Tick {ctx.n = ctx.n+1; glob.total = glob.total+1;} =>;            *)
(*       Go => Busy{n: ctx.n}; )                                           *)
(*   (Busy ctx{n:i16}:                                                     *)
(*       Tick {glob.total = glob.total+1;} =>;                             *)
(*       Nop =>;                                                           *)
(*       Go {ctx.n = ctx.n+1;} => Idle{n: ctx.n}; )                        *)
(***************************************************************************)
Tally ==
    [ states    |-> {"Idle", "Busy"},
      commands  |-> {"Tick", "Go", "Nop"},
      initial   |-> Variant("Idle", [n |-> 0]),
      reactions |-> { Reaction("Idle", "Tick", TRUE, <<>>),
                      Reaction("Idle", "Go", FALSE, <<"Busy">>),
                      Reaction("Busy", "Tick", TRUE, <<>>),
                      Reaction("Busy", "Nop", FALSE, <<>>),
                      Reaction("Busy", "Go", TRUE, <<"Idle">>) } ]

TallyEnter(s, ctx, glob) ==
    IF s = "Idle" THEN Env(ctx, [glob EXCEPT !.total = I16(glob.total + 1)])
                  ELSE Env(ctx, glob)

TallyLeave(s, ctx, glob) ==
    IF s = "Idle" THEN Env([ctx EXCEPT !.n = I16(ctx.n + 1)], glob)
                  ELSE Env(ctx, glob)

TallyCallback(s, c, ctx, glob) ==
    CASE s = "Idle" /\ c = "Tick" ->
            Env([ctx EXCEPT !.n = I16(ctx.n + 1)], [glob EXCEPT !.total = I16(glob.total + 1)])
      [] s = "Busy" /\ c = "Tick" ->
            Env(ctx, [glob EXCEPT !.total = I16(glob.total + 1)])
      [] OTHER ->
            Env([ctx EXCEPT !.n = I16(ctx.n + 1)], glob)

TallyNext(s, c, ctx, glob) ==
    [n |-> ctx.n]

---------------------------------------------------------------------------
(* What the macro's main pattern takes from a declaration. *)

Machines ==
    {"Simple2", "Simple3", "Simple4", "Mach1", "Mach2", "Mach3", "Mach4", "Tally"}

Decl(d) ==
    CASE d = "Simple2" -> Simple2
      [] d = "Simple3" -> Simple3
      [] d = "Simple4" -> Simple4
      [] d = "Mach1"   -> Mach1
      [] d = "Mach2"   -> Mach2
      [] d = "Mach3"   -> Mach3
      [] d = "Mach4"   -> Mach4
      [] d = "Tally"   -> Tally

\* $callback of the reaction to c in state node s.
CallbackBlock(d, s, c, ctx, g) ==
    CASE d = "Simple2" -> Simple2Callback(s, c, ctx, g)
      [] d = "Simple3" -> Simple3Callback(s, c, ctx, g)
      [] d = "Mach4"   -> Mach4Callback(s, c, ctx, g)
      [] d = "Tally"   -> TallyCallback(s, c, ctx, g)
      [] OTHER         -> Env(ctx, g)

\* $income of state node s.
IncomeBlock(d, s, ctx, g) ==
    CASE d = "Simple3" -> Simple3Enter(s, ctx, g)
      [] d = "Simple4" -> Simple4Enter(s, ctx, g)
      [] d = "Tally"   -> TallyEnter(s, ctx, g)
      [] OTHER         -> Env(ctx, g)

\* $outcome of state node s.
OutcomeBlock(d, s, ctx, g) ==
    CASE d = "Simple3" -> Simple3Leave(s, ctx, g)
      [] d = "Mach3"   -> Mach3Leave(s, ctx, g)
      [] d = "Tally"   -> TallyLeave(s, ctx, g)
      [] OTHER         -> Env(ctx, g)

\* The values $new_el_val of the reaction to c in state node s.
NewElVals(d, s, c, ctx, g) ==
    CASE d = "Simple2" -> Simple2Next(s, c, ctx, g)
      [] d = "Simple3" -> Simple3Next(s, c, ctx, g)
      [] d = "Mach1"   -> Mach1Next(s, c, ctx, g)
      [] d = "Mach3"   -> Mach3Next(s, c, ctx, g)
      [] d = "Tally"   -> TallyNext(s, c, ctx, g)
      [] OTHER         -> Unit

\* The arguments the caller hands to new, one per field of the machine context.
NewArgs(d) ==
    CASE d = "Simple4" -> {[counter |-> v] : v \in 0..MaxInit}
      [] d = "Mach3"   -> {[id |-> v] : v \in 0..MaxInit}
      [] d = "Mach4"   -> {[st |-> InnerMachineContext(v)] : v \in 0..MaxInit}
      [] d = "Tally"   -> {[total |-> v] : v \in 0..MaxInit}
      [] OTHER         -> {Unit}

\* The reactions of state node s to command c, in the order of the match arms.
ReactionsTo(d, s, c) ==
    {r \in Decl(d).reactions : r.state = s /\ r.cmd = c}

---------------------------------------------------------------------------
(* The generated code.  A hook event records which block ran, for which   *)
(* state, and the two contexts as the block found them.                   *)

Event(hook, s, ctx, g) == [hook |-> hook, of |-> s, ctx |-> ctx, glob |-> g]

\* The events of log, each with the tag self.state held while its block ran
\* ("" in new, where no Machine exists yet).
During(log, tag) ==
    [k \in 1..Len(log) |->
        [hook |-> log[k].hook, of |-> log[k].of, ctx |-> log[k].ctx,
         glob |-> log[k].glob, stored |-> tag]]

\* (@inner next ...): the context struct of the new state.
InnerNext(d, s, c, ctx, g) ==
    NewElVals(d, s, c, ctx, g)

\* fn enter(&mut self, glob) of state s.
enter(d, s, ctx, g) ==
    LET e == IncomeBlock(d, s, ctx, g)
    IN  [ctx |-> e.ctx, g |-> e.g, log |-> <<Event("enter", s, ctx, g)>>]

\* leave that runs $outcome on copies of the two contexts.
leave_OnCopies(d, s, ctx, g) ==
    [ctx |-> ctx, g |-> g, log |-> <<Event("leave", s, ctx, g)>>]

\* fn leave(&mut self, glob) of state s.
leave(d, s, ctx, g) ==
    LET e == OutcomeBlock(d, s, ctx, g)
    IN  [ctx |-> e.ctx, g |-> e.g, log |-> <<Event("leave", s, ctx, g)>>]

\* InnerCommand with the leave hook run before the callback.
InnerCommand_LeaveFirst(d, r, ctx, g) ==
    IF r.target = <<>>
      THEN LET e == IF r.callback THEN CallbackBlock(d, r.state, r.cmd, ctx, g)
                                  ELSE Env(ctx, g)
           IN  [ret |-> Some(SameState), ctx |-> e.ctx, g |-> e.g,
                log |-> IF r.callback THEN <<Event("callback", r.state, ctx, g)>>
                                      ELSE <<>>]
      ELSE LET lv == leave(d, r.state, ctx, g)
               e  == IF r.callback THEN CallbackBlock(d, r.state, r.cmd, lv.ctx, lv.g)
                                   ELSE Env(lv.ctx, lv.g)
           IN  [ret |-> Some(Variant(r.target[1],
                                     InnerNext(d, r.state, r.cmd, e.ctx, e.g))),
                ctx |-> e.ctx, g |-> e.g,
                log |-> lv.log \o (IF r.callback
                                     THEN <<Event("callback", r.state, lv.ctx, lv.g)>>
                                     ELSE <<>>)]

\* InnerCommand with the leave hook run by every arm, also those without a new state.
InnerCommand_LeaveOnSame(d, r, ctx, g) ==
    LET e  == IF r.callback THEN CallbackBlock(d, r.state, r.cmd, ctx, g) ELSE Env(ctx, g)
        cl == IF r.callback THEN <<Event("callback", r.state, ctx, g)>> ELSE <<>>
        lv == leave(d, r.state, e.ctx, e.g)
    IN  [ret |-> IF r.target = <<>>
                   THEN Some(SameState)
                   ELSE Some(Variant(r.target[1],
                                     InnerNext(d, r.state, r.cmd, lv.ctx, lv.g))),
         ctx |-> lv.ctx, g |-> lv.g, log |-> cl \o lv.log]

\* InnerCommand with the new state's values taken before the leave hook runs.
InnerCommand_NextBeforeLeave(d, r, ctx, g) ==
    LET e  == IF r.callback THEN CallbackBlock(d, r.state, r.cmd, ctx, g) ELSE Env(ctx, g)
        cl == IF r.callback THEN <<Event("callback", r.state, ctx, g)>> ELSE <<>>
    IN  IF r.target = <<>>
          THEN [ret |-> Some(SameState), ctx |-> e.ctx, g |-> e.g, log |-> cl]
          ELSE LET nx == InnerNext(d, r.state, r.cmd, e.ctx, e.g)
                   lv == leave(d, r.state, e.ctx, e.g)
               IN  [ret |-> Some(Variant(r.target[1], nx)),
                    ctx |-> lv.ctx, g |-> lv.g, log |-> cl \o lv.log]

\* InnerCommand with the new state's values taken before the callback runs.
InnerCommand_NextBeforeCallback(d, r, ctx, g) ==
    LET e  == IF r.callback THEN CallbackBlock(d, r.state, r.cmd, ctx, g) ELSE Env(ctx, g)
        cl == IF r.callback THEN <<Event("callback", r.state, ctx, g)>> ELSE <<>>
    IN  IF r.target = <<>>
          THEN [ret |-> Some(SameState), ctx |-> e.ctx, g |-> e.g, log |-> cl]
          ELSE LET nx == InnerNext(d, r.state, r.cmd, ctx, g)
                   lv == leave(d, r.state, e.ctx, e.g)
               IN  [ret |-> Some(Variant(r.target[1], nx)),
                    ctx |-> lv.ctx, g |-> lv.g, log |-> cl \o lv.log]

\* InnerCommand whose callback works on a clone of the machine context: the
\* leave hook and what follows get the context the call started with.
InnerCommand_CallbackOnClone(d, r, ctx, g) ==
    LET e  == IF r.callback THEN CallbackBlock(d, r.state, r.cmd, ctx, g) ELSE Env(ctx, g)
        cl == IF r.callback THEN <<Event("callback", r.state, ctx, g)>> ELSE <<>>
    IN  IF r.target = <<>>
          THEN [ret |-> Some(SameState), ctx |-> e.ctx, g |-> g, log |-> cl]
          ELSE LET lv == leave(d, r.state, e.ctx, g)
               IN  [ret |-> Some(Variant(r.target[1],
                                         InnerNext(d, r.state, r.cmd, lv.ctx, lv.g))),
                    ctx |-> lv.ctx, g |-> lv.g, log |-> cl \o lv.log]

\* InnerCommand whose arm for a reaction with neither callback nor new state
\* returns None, as the `_` arm does for a command without reaction.
InnerCommand_EmptyIsNone(d, r, ctx, g) ==
    LET e  == IF r.callback THEN CallbackBlock(d, r.state, r.cmd, ctx, g) ELSE Env(ctx, g)
        cl == IF r.callback THEN <<Event("callback", r.state, ctx, g)>> ELSE <<>>
    IN  IF r.target = <<>>
          THEN [ret |-> IF r.callback THEN Some(SameState) ELSE None,
                ctx |-> e.ctx, g |-> e.g, log |-> cl]
          ELSE LET lv == leave(d, r.state, e.ctx, e.g)
               IN  [ret |-> Some(Variant(r.target[1],
                                         InnerNext(d, r.state, r.cmd, lv.ctx, lv.g))),
                    ctx |-> lv.ctx, g |-> lv.g, log |-> cl \o lv.log]

\* (@inner command ...): the body of the match arm of reaction r.
InnerCommand(d, r, ctx, g) ==
    LET cb  == IF r.callback
                 THEN LET e == CallbackBlock(d, r.state, r.cmd, ctx, g)
                      IN  [ctx |-> e.ctx, g |-> e.g,
                           log |-> <<Event("callback", r.state, ctx, g)>>]
                 ELSE [ctx |-> ctx, g |-> g, log |-> <<>>]
    IN  IF r.target = <<>>
          THEN [ret |-> Some(SameState), ctx |-> cb.ctx, g |-> cb.g, log |-> cb.log]
          ELSE LET lv == leave(d, r.state, cb.ctx, cb.g)
               IN  [ret |-> Some(Variant(r.target[1],
                                         InnerNext(d, r.state, r.cmd, lv.ctx, lv.g))),
                    ctx |-> lv.ctx, g |-> lv.g, log |-> cb.log \o lv.log]

\* do_job that matches on the state alone and takes its reaction to any command.
do_job_IgnoresCommand(d, s, cmd, ctx, g) ==
    LET rs == UNION { ReactionsTo(d, s, c) : c \in Decl(d).commands }
    IN  IF rs = {}
          THEN [ret |-> None, ctx |-> ctx, g |-> g, log |-> <<>>]
          ELSE InnerCommand(d, CHOOSE r \in rs : TRUE, ctx, g)

\* do_job whose `_` arm runs the leave hook before it returns None.
do_job_LeaveOnMiss(d, s, cmd, ctx, g) ==
    IF ReactionsTo(d, s, cmd) = {}
      THEN LET lv == leave(d, s, ctx, g)
           IN  [ret |-> None, ctx |-> lv.ctx, g |-> lv.g, log |-> lv.log]
      ELSE InnerCommand(d, CHOOSE r \in ReactionsTo(d, s, cmd) : TRUE, ctx, g)

\* fn do_job(&mut self, cmd, glob) of state s.
do_job(d, s, cmd, ctx, g) ==
    IF ReactionsTo(d, s, cmd) = {}
      THEN [ret |-> None, ctx |-> ctx, g |-> g, log |-> <<>>]
      ELSE InnerCommand(d, CHOOSE r \in ReactionsTo(d, s, cmd) : TRUE, ctx, g)

\* Bind with the machine context kept in one place for all the instances.
Bind_SharedContext(machines, i, m) ==
    [j \in DOMAIN machines \cup {i} |->
        IF j = i THEN m ELSE [machines[j] EXCEPT !.context = m.context]]

\* pub struct Machine {state, context}: the caller's variable i holds the value m,
\* state and machine context included; the other variables keep theirs.
Bind(machines, i, m) ==
    [j \in DOMAIN machines \cup {i} |-> IF j = i THEN m ELSE machines[j]]

\* new without the call of enter.
new_NoEnter(d, args) ==
    [m   |-> [state |-> Decl(d).initial, context |-> args],
     log |-> <<>>]

\* pub fn new(...) -> Machine
new(d, args) ==
    LET context         == Decl(d).initial.context
        machine_context == args
        e               == enter(d, Decl(d).initial.tag, context, machine_context)
    IN  [m   |-> [state |-> Variant(Decl(d).initial.tag, e.ctx), context |-> e.g],
         log |-> During(e.log, "")]

\* change_state that hands enter a clone of the machine context.
change_state_ContextClone(d, m, new_state) ==
    LET m1 == [m EXCEPT !.state = new_state]
        e  == enter(d, m1.state.tag, m1.state.context, m1.context)
    IN  [m   |-> [state |-> Variant(m1.state.tag, e.ctx), context |-> m1.context],
         log |-> During(e.log, m1.state.tag)]

\* change_state that runs enter on the state it finds stored, then stores the new one.
change_state_EnterFirst(d, m, new_state) ==
    LET e  == enter(d, m.state.tag, m.state.context, m.context)
    IN  [m   |-> [state |-> new_state, context |-> e.g],
         log |-> During(e.log, m.state.tag)]

\* change_state that patches the stored context with the new one: a field the old
\* state also had keeps its old value.
change_state_PatchesContext(d, m, new_state) ==
    LET old == m.state.context
        nxt == new_state.context
        ctx == [f \in DOMAIN nxt |-> IF f \in DOMAIN old THEN old[f] ELSE nxt[f]]
        e   == enter(d, new_state.tag, ctx, m.context)
    IN  [m   |-> [state |-> Variant(new_state.tag, e.ctx), context |-> e.g],
         log |-> During(e.log, new_state.tag)]

\* change_state that stores the new state and returns without calling enter.
change_state_NoEnter(d, m, new_state) ==
    [m |-> [m EXCEPT !.state = new_state], log |-> <<>>]

\* fn change_state(&mut self, new_state)
change_state(d, m, new_state) ==
    LET m1 == [m EXCEPT !.state = new_state]
    IN  IF m1.state.tag = SameState.tag
          THEN [m |-> m1, log |-> <<>>]
          ELSE LET e == enter(d, m1.state.tag, m1.state.context, m1.context)
               IN  [m   |-> [state |-> Variant(m1.state.tag, e.ctx), context |-> e.g],
                    log |-> During(e.log, m1.state.tag)]

\* execute that hands every Some(x) to change_state, __SameState__ included.
execute_NoSentinelCheck(d, m, cmd) ==
    LET job == do_job(d, m.state.tag, cmd, m.state.context, m.context)
        m1  == [state |-> Variant(m.state.tag, job.ctx), context |-> job.g]
        log == During(job.log, m.state.tag)
    IN  IF job.ret = None
          THEN [m |-> m1, result |-> "Err", log |-> log]
          ELSE LET cs == change_state(d, m1, job.ret[1])
               IN  [m |-> cs.m, result |-> "Ok", log |-> log \o cs.log]

\* execute that skips change_state when the new state equals the stored one.
execute_SkipsEqual(d, m, cmd) ==
    LET job == do_job(d, m.state.tag, cmd, m.state.context, m.context)
        m1  == [state |-> Variant(m.state.tag, job.ctx), context |-> job.g]
        log == During(job.log, m.state.tag)
    IN  IF job.ret = None
          THEN [m |-> m1, result |-> "Err", log |-> log]
          ELSE IF job.ret[1] = SameState \/ job.ret[1] = m1.state
                 THEN [m |-> m1, result |-> "Ok", log |-> log]
                 ELSE LET cs == change_state(d, m1, job.ret[1])
                      IN  [m |-> cs.m, result |-> "Ok", log |-> log \o cs.log]

\* execute that reports Some(__SameState__) as an error, like None.
execute_ErrOnSameState(d, m, cmd) ==
    LET job == do_job(d, m.state.tag, cmd, m.state.context, m.context)
        m1  == [state |-> Variant(m.state.tag, job.ctx), context |-> job.g]
        log == During(job.log, m.state.tag)
    IN  IF job.ret = None \/ job.ret[1] = SameState
          THEN [m |-> m1, result |-> "Err", log |-> log]
          ELSE LET cs == change_state(d, m1, job.ret[1])
               IN  [m |-> cs.m, result |-> "Ok", log |-> log \o cs.log]

\* execute that hands the command to do_job a second time when the first
\* try found a reaction.
execute_Retries(d, m, cmd) ==
    LET try == do_job(d, m.state.tag, cmd, m.state.context, m.context)
        job == IF try.ret = None
                 THEN try
                 ELSE LET again == do_job(d, m.state.tag, cmd, try.ctx, try.g)
                      IN  [again EXCEPT !.log = try.log \o again.log]
        m1  == [state |-> Variant(m.state.tag, job.ctx), context |-> job.g]
        log == During(job.log, m.state.tag)
    IN  IF job.ret = None
          THEN [m |-> m1, result |-> "Err", log |-> log]
          ELSE IF job.ret[1] = SameState
                 THEN [m |-> m1, result |-> "Ok", log |-> log]
                 ELSE LET cs == change_state(d, m1, job.ret[1])
                      IN  [m |-> cs.m, result |-> "Ok", log |-> log \o cs.log]

\* execute whose callback, in a reaction without a new state, works on copies
\* of the two contexts: the machine keeps the contexts it had.
execute_SameStateOnCopies(d, m, cmd) ==
    LET job == do_job(d, m.state.tag, cmd, m.state.context, m.context)
        m1  == [state |-> Variant(m.state.tag, job.ctx), context |-> job.g]
        log == During(job.log, m.state.tag)
    IN  IF job.ret = None
          THEN [m |-> m1, result |-> "Err", log |-> log]
          ELSE IF job.ret[1] = SameState
                 THEN [m |-> m, result |-> "Ok", log |-> log]
                 ELSE LET cs == change_state(d, m1, job.ret[1])
                      IN  [m |-> cs.m, result |-> "Ok", log |-> log \o cs.log]

\* pub fn execute(&mut self, cmd) -> Result<(),()>
execute(d, m, cmd) ==
    LET job == IF m.state.tag = SameState.tag
                 THEN [ret |-> None, ctx |-> m.state.context, g |-> m.context, log |-> <<>>]
                 ELSE do_job(d, m.state.tag, cmd, m.state.context, m.context)
        m1  == [state |-> Variant(m.state.tag, job.ctx), context |-> job.g]
        log == During(job.log, m.state.tag)
    IN  IF job.ret = None
          THEN [m |-> m1, result |-> "Err", log |-> log]
          ELSE IF job.ret[1] = SameState
                 THEN [m |-> m1, result |-> "Ok", log |-> log]
                 ELSE LET cs == change_state(d, m1, job.ret[1])
                      IN  [m |-> cs.m, result |-> "Ok", log |-> log \o cs.log]

\* pub fn state(&self) -> States
state(m) == m.state

\* pub fn get_inner_context(&self) -> MachineContext
get_inner_context(m) == m.context

\* An accessor that hands out self.context itself: what the caller writes to
\* what it got is written to the machine.
AfterCallerWrite_ByReference(m, c) == [m EXCEPT !.context = c]

\* The machine after the caller assigned c to what get_inner_context returned:
\* the accessor takes &self and returns self.context.clone(), a value of the
\* caller's own, so the machine keeps the context it had.
AfterCallerWrite(m, c) == m

---------------------------------------------------------------------------
(* The caller: the instances it owns and the calls it makes on them. *)

\* tests::test3: `let mut m = Mach3::new(0); let mut m1 = Mach3::new(1);`
Instances == {"m", "m1"}

\* How many events of the log are runs of the given block.
Count(log, hook) == Cardinality({k \in 1..Len(log) : log[k].hook = hook})

\* The call record of the caller's last call.
Call(op, i, cmd, result, log, pre) ==
    [op |-> op, inst |-> i, cmd |-> cmd, result |-> result, log |-> log,
     pre |-> pre]

\* Whether the declaration gives state s a reaction to cmd that names a new state.
Moves(d, s, cmd) ==
    \E r \in ReactionsTo(d, s, cmd) : r.target # <<>>

\* The counters of an instance after execute(cmd) in state s ended with `result`
\* and ran `log`: calls that returned Ok, reactions taken that name a new state,
\* runs of enter and runs of leave.
Counted(d, h, s, cmd, result, log) ==
    [h EXCEPT !.ok      = @ + (IF result = "Ok" THEN 1 ELSE 0),
              !.moved   = @ + (IF Moves(d, s, cmd) THEN 1 ELSE 0),
              !.enters  = @ + Count(log, "enter"),
              !.leaves  = @ + Count(log, "leave")]

Init ==
    /\ def \in Machines
    /\ machine = <<>>
    /\ hist = <<>>
    /\ last = Call("none", "", "", "", <<>>, Unit)

\* let mut i = $machine::new(args);
New(i, args) ==
    /\ i \notin DOMAIN machine
    /\ LET r == new(def, args)
       IN  /\ machine' = Bind(machine, i, r.m)
           /\ hist' = hist @@ (i :> [args |-> args, ok |-> 0, moved |-> 0,
                                     enters |-> Count(r.log, "enter"),
                                     leaves |-> Count(r.log, "leave")])
           /\ last' = Call("new", i, "", "Ok", r.log, Unit)
    /\ UNCHANGED def

\* i.execute(&Commands::cmd)
Execute(i, cmd) ==
    /\ i \in DOMAIN machine
    /\ hist[i].ok < MaxCalls
    /\ LET r == execute(def, machine[i], cmd)
       IN  /\ machine' = Bind(machine, i, r.m)
           /\ hist' = [hist EXCEPT ![i] =
                          Counted(def, @, machine[i].state.tag, cmd, r.result, r.log)]
           /\ last' = Call("execute", i, cmd, r.result, r.log, machine[i])
    /\ UNCHANGED def

\* let mut context = i.get_inner_context(); context = c;
\* for a declaration with fields in its machine context, c another value of it.
GetInnerContext(i, c) ==
    /\ i \in DOMAIN machine
    /\ NewArgs(def) # {Unit}
    /\ c # get_inner_context(machine[i])
    /\ machine' = Bind(machine, i, AfterCallerWrite(machine[i], c))
    /\ last' = [op |-> "get_inner_context", inst |-> i, cmd |-> "", result |-> "",
                log |-> <<>>, pre |-> machine[i],
                got |-> get_inner_context(machine[i]), ret |-> c]
    /\ UNCHANGED <<def, hist>>

Next ==
    \/ \E i \in Instances, args \in NewArgs(def) : New(i, args)
    \/ \E i \in Instances, cmd \in Decl(def).commands : Execute(i, cmd)
    \/ \E i \in Instances, c \in NewArgs(def) : GetInnerContext(i, c)

Spec == Init /\ [][Next]_vars

---------------------------------------------------------------------------
(* The caller of tests::test1: one Mach1, `m`, and as many calls of        *)
(* execute as the test makes, with any commands; the commands given so far *)
(* are kept with the counters of m.                                        *)

\* The commands of tests::test1, in order.
Test1 ==
    << "Configure", "ConfigureDone", "Drop", "Configure",
       "ConfigureDone", "ConfigureDone", "ConfigureDone" >>

Test1Init ==
    /\ def = "Mach1"
    /\ machine = <<>>
    /\ hist = <<>>
    /\ last = Call("none", "", "", "", <<>>, Unit)

\* let mut m = Mach1::new();
Test1New ==
    /\ "m" \notin DOMAIN machine
    /\ LET r == new(def, Unit)
       IN  /\ machine' = Bind(machine, "m", r.m)
           /\ hist' = hist @@ ("m" :> [args |-> Unit, ok |-> 0, moved |-> 0,
                                       enters |-> Count(r.log, "enter"),
                                       leaves |-> Count(r.log, "leave"),
                                       trace |-> <<>>])
           /\ last' = Call("new", "m", "", "Ok", r.log, Unit)
    /\ UNCHANGED def

\* m.execute(&Mach1::Commands::cmd)
Test1Execute(cmd) ==
    /\ "m" \in DOMAIN machine
    /\ Len(hist["m"].trace) < Len(Test1)
    /\ LET r == execute(def, machine["m"], cmd)
           h == Counted(def, hist["m"], machine["m"].state.tag, cmd, r.result, r.log)
       IN  /\ machine' = Bind(machine, "m", r.m)
           /\ hist' = [hist EXCEPT !["m"] = [h EXCEPT !.trace = Append(@, cmd)]]
           /\ last' = Call("execute", "m", cmd, r.result, r.log, machine["m"])
    /\ UNCHANGED def

Test1Next ==
    \/ Test1New
    \/ \E cmd \in Decl(def).commands : Test1Execute(cmd)

SpecTest1 == Test1Init /\ [][Test1Next]_vars

---------------------------------------------------------------------------
(* Properties of the generated code. *)

Constructed == DOMAIN machine

\* The last call was an execute.
Executed == last.op = "execute"

\* The reactions the declaration gives the state of the last execute to its command.
LastReactions ==
    ReactionsTo(def, last.pre.state.tag, last.cmd)

LastReaction == CHOOSE r \in LastReactions : TRUE

\* Which blocks a call ran, for which states, in order.
Hooks(log) == [k \in 1..Len(log) |-> <<log[k].hook, log[k].of>>]

\* The callback of reaction r, if it has one.
CallbackOf(r) == IF r.callback THEN << <<"callback", r.state>> >> ELSE <<>>

(***************************************************************************)
(* C1. A command without a reaction in the current state is rejected: the  *)
(* call returns Err, the state (tag and context) and the machine context   *)
(* are what they were before it, no callback and no hook ran, and every    *)
(* command is handled afterwards as it would have been before the call.    *)
(***************************************************************************)
C1_RejectedWithoutEffect ==
    (Executed /\ LastReactions = {}) =>
        /\ last.result = "Err"
        /\ machine[last.inst].state = last.pre.state
        /\ machine[last.inst].context = last.pre.context
        /\ last.log = <<>>
        /\ \A c \in Decl(def).commands :
              execute(def, machine[last.inst], c) = execute(def, last.pre, c)

\* Mach3 rejected a command after it had left a state, in a state with a leave hook.
C1_Witness ==
    /\ def = "Mach3"
    /\ Executed /\ LastReactions = {}
    /\ last.result = "Err"
    /\ last.pre.state.context.counter > 0
    /\ hist[last.inst].args.id = 1

(***************************************************************************)
(* C2. An execute whose reaction names a new state runs exactly: the       *)
(* callback of the reaction if it has one, then leave of the old state,    *)
(* then enter of the new state; each once, nothing else.                   *)
(***************************************************************************)
C2_TransitionHookOrder ==
    (Executed /\ LastReactions # {} /\ LastReaction.target # <<>>) =>
        Hooks(last.log) =
            CallbackOf(LastReaction)
              \o << <<"leave", last.pre.state.tag>>, <<"enter", LastReaction.target[1]>> >>

\* A reaction with a callback moved a machine with hooks to another state.
C2_Witness ==
    /\ def = "Tally"
    /\ Executed /\ last.cmd = "Go" /\ last.pre.state.tag = "Busy"
    /\ Hooks(last.log) = << <<"callback", "Busy">>, <<"leave", "Busy">>, <<"enter", "Idle">> >>
    /\ machine[last.inst].state.tag = "Idle"

(***************************************************************************)
(* C3. An execute whose reaction names no new state returns Ok, runs the   *)
(* callback of the reaction once if it has one and no leave or enter hook, *)
(* replaces no context (both contexts are as the callback left them), and  *)
(* leaves the state tag as it was.                                         *)
(***************************************************************************)
C3_SameStateFrame ==
    (Executed /\ LastReactions # {} /\ LastReaction.target = <<>>) =>
        LET after == IF LastReaction.callback
                       THEN CallbackBlock(def, last.pre.state.tag, last.cmd,
                                          last.pre.state.context, last.pre.context)
                       ELSE Env(last.pre.state.context, last.pre.context)
        IN  /\ last.result = "Ok"
            /\ Hooks(last.log) = CallbackOf(LastReaction)
            /\ machine[last.inst].state.tag = last.pre.state.tag
            /\ machine[last.inst].state.context = after.ctx
            /\ machine[last.inst].context = after.g

\* A callback without a new state changed both contexts of a state with hooks.
C3_Witness ==
    /\ def = "Tally"
    /\ Executed /\ last.cmd = "Tick" /\ last.pre.state.tag = "Idle"
    /\ last.result = "Ok"
    /\ machine[last.inst].state.context.n = last.pre.state.context.n + 1
    /\ machine[last.inst].context.total = last.pre.context.total + 1
    /\ Len(last.log) = 1

(***************************************************************************)
(* C4. new runs the enter hook of the initial state once, and no leave     *)
(* hook, before any execute; afterwards enter of the initial state runs    *)
(* only in an execute whose reaction names the initial state, so that an   *)
(* instance has run enter once more than it has taken such reactions.      *)
(***************************************************************************)
C4_InitialEnterOnce ==
    /\ last.op = "new" =>
          /\ Hooks(last.log) = << <<"enter", Decl(def).initial.tag>> >>
          /\ last.log[1].ctx = Decl(def).initial.context
          /\ hist[last.inst] = [args |-> hist[last.inst].args, ok |-> 0, moved |-> 0,
                                enters |-> 1, leaves |-> 0]
    /\ Executed =>
          \A k \in 1..Len(last.log) :
              (last.log[k].hook = "enter" /\ last.log[k].of = Decl(def).initial.tag) =>
                  /\ LastReactions # {}
                  /\ LastReaction.target = <<Decl(def).initial.tag>>
    /\ \A i \in Constructed : hist[i].enters = 1 + hist[i].moved

\* Doc example 3 right after new: the enter hook of A made the counter 1.
C4_Witness ==
    /\ def = "Simple3"
    /\ last.op = "new"
    /\ machine[last.inst].state = Variant("A", [counter |-> 1])

(***************************************************************************)
(* C5. The state an instance stores, and state() returns, is always one of *)
(* the declared states and never __SameState__.                            *)
(***************************************************************************)
C5_NeverSentinel ==
    \A i \in Constructed :
        /\ machine[i].state.tag \in Decl(def).states
        /\ state(machine[i]) # SameState
        /\ state(machine[i]).tag # SameState.tag

\* An execute just returned Ok for a reaction whose do_job returned __SameState__.
C5_Witness ==
    /\ def = "Mach1"
    /\ Executed /\ last.cmd = "ConfigureDone" /\ last.pre.state.tag = "Operational"
    /\ last.result = "Ok"
    /\ state(machine[last.inst]).tag = "Operational"

\* What the block of event e left: the state context and the machine context.
BlockOf(e) ==
    CASE e.hook = "callback" -> CallbackBlock(def, e.of, last.cmd, e.ctx, e.glob)
      [] e.hook = "leave"    -> OutcomeBlock(def, e.of, e.ctx, e.glob)
      [] e.hook = "enter"    -> IncomeBlock(def, e.of, e.ctx, e.glob)

(***************************************************************************)
(* C6. A call on one instance leaves every other instance as it was: its   *)
(* state tag, its state context and its machine context, that is what      *)
(* state() and get_inner_context() return for it.                          *)
(***************************************************************************)
C6_InstancesIndependent ==
    [][\A j \in Constructed :
          (j # last'.inst) =>
              /\ machine'[j] = machine[j]
              /\ state(machine'[j]) = state(machine[j])
              /\ get_inner_context(machine'[j]) = get_inner_context(machine[j])]_vars

\* Two Mach4 instances; callbacks of m counted twice in m's context, m1's still 0.
C6_Witness ==
    /\ def = "Mach4"
    /\ Constructed = Instances
    /\ Executed /\ last.inst = "m" /\ last.result = "Ok"
    /\ get_inner_context(machine["m"]).st.counter = 2
    /\ get_inner_context(machine["m1"]).st.counter = 0
    /\ hist["m1"].ok = 0

(***************************************************************************)
(* C7. The machine context is the value given to new and is changed only   *)
(* by the blocks a call runs, each block starting from what the one before *)
(* it left; no transition rebuilds it.  For doc example 4 constructed with *)
(* 0, the counter is 1 plus the number of execute calls that returned Ok.  *)
(***************************************************************************)
C7_SharedContextAccumulates ==
    /\ last.op \in {"new", "execute"} =>
          LET log   == last.log
              start == IF last.op = "new" THEN hist[last.inst].args
                                          ELSE last.pre.context
          IN  /\ log # <<>> => log[1].glob = start
              /\ \A k \in 1..(Len(log) - 1) : log[k + 1].glob = BlockOf(log[k]).g
              /\ get_inner_context(machine[last.inst]) =
                    IF log = <<>> THEN start ELSE BlockOf(log[Len(log)]).g
    /\ def = "Simple4" =>
          \A i \in Constructed :
              hist[i].args.counter = 0 =>
                  get_inner_context(machine[i]).counter = 1 + hist[i].ok

\* Doc example 4 after new(0) and two Next: the counter is 3.
C7_Witness ==
    /\ def = "Simple4"
    /\ "m" \in Constructed
    /\ hist["m"].args.counter = 0
    /\ hist["m"].ok = 2
    /\ get_inner_context(machine["m"]).counter = 3

(***************************************************************************)
(* C8. A reaction that names the state the machine is in as its new state  *)
(* is a transition like any other: leave and then enter of that state run, *)
(* and the state context becomes the values of the reaction (as enter left *)
(* them), also when they equal the old ones.                               *)
(***************************************************************************)
C8_SelfTargetIsTransition ==
    (Executed /\ LastReactions # {} /\ LastReaction.target = <<last.pre.state.tag>>) =>
        LET s  == last.pre.state.tag
            n  == Len(last.log)
        IN  /\ last.result = "Ok"
            /\ Hooks(last.log) = CallbackOf(LastReaction) \o << <<"leave", s>>, <<"enter", s>> >>
            /\ last.log[n].ctx =
                  NewElVals(def, s, last.cmd,
                            BlockOf(last.log[n - 1]).ctx, BlockOf(last.log[n - 1]).g)
            /\ machine[last.inst].state = Variant(s, BlockOf(last.log[n]).ctx)

\* Mach1 in New{x:0} on ConfigureDone: both hooks ran and the state is New{x:0} again.
C8_Witness ==
    /\ def = "Mach1"
    /\ Executed /\ last.cmd = "ConfigureDone"
    /\ last.pre.state = Variant("New", [x |-> 0])
    /\ Hooks(last.log) = << <<"leave", "New">>, <<"enter", "New">> >>
    /\ machine[last.inst].state = last.pre.state

(***************************************************************************)
(* C9. On a transition the new state is stored before its enter hook runs: *)
(* enter is the last block of the call, it runs for the new state on the   *)
(* values do_job returned, with the new state already stored, and what it  *)
(* does to the state context is what state() returns afterwards.           *)
(***************************************************************************)
C9_StoreThenEnter ==
    (Executed /\ LastReactions # {} /\ LastReaction.target # <<>>) =>
        LET e == last.log[Len(last.log)]
        IN  /\ e.hook = "enter"
            /\ e.of = LastReaction.target[1]
            /\ e.stored = LastReaction.target[1]
            /\ \A k \in 1..(Len(last.log) - 1) : last.log[k].stored = last.pre.state.tag
            /\ state(machine[last.inst]) = Variant(e.of, BlockOf(e).ctx)
            /\ (def = "Simple3" /\ e.of = "A") =>
                  state(machine[last.inst]).context.counter = e.ctx.counter + 1

\* Doc example 3 back in A: 4 came from B, the enter hook of A made it 5.
C9_Witness ==
    /\ def = "Simple3"
    /\ Executed /\ last.pre.state.tag = "B"
    /\ last.log[Len(last.log)].ctx = [counter |-> 4]
    /\ state(machine[last.inst]) = Variant("A", [counter |-> 5])

C12_ContextReplaced ==
    /\ (Executed /\ LastReactions # {} /\ LastReaction.target # <<>>) =>
          LET n      == Len(last.log)
              out    == BlockOf(last.log[n - 1])
              values == NewElVals(def, last.pre.state.tag, last.cmd, out.ctx, out.g)
          IN  state(machine[last.inst]) =
                  Variant(LastReaction.target[1],
                          IncomeBlock(def, LastReaction.target[1], values, out.g).ctx)
    /\ def = "Mach1" =>
          \A i \in Constructed :
              /\ state(machine[i]).tag = "New" =>
                    state(machine[i]).context = [x |-> 0]
              /\ state(machine[i]).tag = "InConfig" =>
                    state(machine[i]).context = [x |-> 1, y |-> 0]
              /\ state(machine[i]).tag = "Operational" =>
                    state(machine[i]).context = Unit

\* Mach1 in InConfig for the second time, after Drop: x is 1 again, not 2.
C12_Witness ==
    /\ def = "Mach1"
    /\ "m" \in Constructed
    /\ hist["m"].moved = 4
    /\ Executed /\ last.inst = "m" /\ last.cmd = "Configure"
    /\ state(machine["m"]) = Variant("InConfig", [x |-> 1, y |-> 0])

(***************************************************************************)
(* C13. Whenever the caller has control (after new, after every return of  *)
(* execute), the last execute either was rejected and changed nothing, or  *)
(* ran its whole protocol: if it ran a leave hook it also ran the enter    *)
(* hook of the state now stored, last.  So every instance has run enter    *)
(* exactly once more than leave.                                           *)
(***************************************************************************)
C13_ExecuteAtomic ==
    /\ Executed =>
          \/ /\ last.result = "Err"
             /\ machine[last.inst] = last.pre
             /\ last.log = <<>>
          \/ /\ last.result = "Ok"
             /\ Count(last.log, "leave") = Count(last.log, "enter")
             /\ Count(last.log, "leave") = 1 =>
                   LET e == last.log[Len(last.log)]
                   IN  /\ e.hook = "enter"
                       /\ e.of = state(machine[last.inst]).tag
                       /\ last.log[Len(last.log) - 1].hook = "leave"
    /\ \A i \in Constructed : hist[i].enters = hist[i].leaves + 1

\* Mach4 between two calls, three transitions made: four enters, three leaves.
C13_Witness ==
    /\ def = "Mach4"
    /\ Executed /\ last.result = "Ok"
    /\ hist[last.inst].enters = 4
    /\ hist[last.inst].leaves = 3
    /\ state(machine[last.inst]).tag = "State1"

(***************************************************************************)
(* C14. Mach1 accepts exactly the commands of its table -- New: Configure  *)
(* to InConfig, ConfigureDone to New; InConfig: ConfigureDone to           *)
(* Operational; Operational: ConfigureDone staying, Drop to New -- and an  *)
(* accepted command leaves it in the state the table names.  The seven     *)
(* commands of test1, from New{x:0}, all return Ok and end in Operational. *)
(***************************************************************************)
C14_Mach1Table ==
    LET table == { <<"New", "Configure", "InConfig">>,
                   <<"New", "ConfigureDone", "New">>,
                   <<"InConfig", "ConfigureDone", "Operational">>,
                   <<"Operational", "ConfigureDone", "Operational">>,
                   <<"Operational", "Drop", "New">> }
    IN  /\ Executed =>
              /\ last.result = "Ok" <=>
                    \E t \in table : t[1] = last.pre.state.tag /\ t[2] = last.cmd
              /\ last.result = "Ok" =>
                    <<last.pre.state.tag, last.cmd, state(machine["m"]).tag>> \in table
              /\ last.result = "Err" => state(machine["m"]) = last.pre.state
        /\ \A k \in 1..Len(Test1) :
              ("m" \in Constructed /\ hist["m"].trace = SubSeq(Test1, 1, k)) =>
                  /\ hist["m"].ok = k
                  /\ last.result = "Ok"
        /\ ("m" \in Constructed /\ hist["m"].trace = Test1) =>
              state(machine["m"]) = Variant("Operational", Unit)

\* test1 ran to its end: seven calls, seven Ok, Operational.
C14_Witness ==
    /\ "m" \in Constructed
    /\ hist["m"].trace = Test1
    /\ hist["m"].ok = 7
    /\ hist["m"].moved = 5
    /\ state(machine["m"]).tag = "Operational"

(***************************************************************************)
(* C15. Mach2 is the cycle State1 -ToState2-> State2 -ToState3-> State3    *)
(* -ToState1-> State1.  In every state exactly one command is accepted,    *)
(* the edge of the cycle that leaves it, and takes the machine to the next *)
(* state; the two others return Err and leave the machine as it was.       *)
(* ToState3 in State1 is rejected, after a whole turn of the cycle too.    *)
(***************************************************************************)
C15_Mach2Cycle ==
    LET edge == [State1 |-> <<"ToState2", "State2">>,
                 State2 |-> <<"ToState3", "State3">>,
                 State3 |-> <<"ToState1", "State1">>]
    IN  (def = "Mach2") =>
          /\ \A i \in Constructed :
                /\ state(machine[i]).tag \in DOMAIN edge
                /\ \A c \in Decl(def).commands :
                      LET r == execute(def, machine[i], c)
                          e == edge[state(machine[i]).tag]
                      IN  IF c = e[1]
                            THEN /\ r.result = "Ok"
                                 /\ state(r.m).tag = e[2]
                            ELSE /\ r.result = "Err"
                                 /\ r.m = machine[i]
                /\ Cardinality({ c \in Decl(def).commands :
                                   execute(def, machine[i], c).result = "Ok" }) = 1
          /\ Executed =>
                /\ last.result = "Ok" <=> last.cmd = edge[last.pre.state.tag][1]
                /\ last.result = "Ok" =>
                      state(machine[last.inst]).tag = edge[last.pre.state.tag][2]
                /\ last.result = "Err" => machine[last.inst] = last.pre
          /\ (Executed /\ last.pre.state.tag = "State1" /\ last.cmd = "ToState3") =>
                /\ last.result = "Err"
                /\ state(machine[last.inst]).tag = "State1"

\* ToState3 was rejected in State1 after a whole turn of the cycle.
C15_Witness ==
    /\ def = "Mach2"
    /\ Executed
    /\ last.cmd = "ToState3"
    /\ last.result = "Err"
    /\ hist[last.inst].ok = 3
    /\ state(machine[last.inst]).tag = "State1"

(***************************************************************************)
(* C16. Two Mach3, one constructed with id 0 and one with id 1, under any  *)
(* interleaving of calls: the id of each stays the value it was            *)
(* constructed with, and the counter of its state context is the number of *)
(* transitions that instance itself made, whatever the other was given.    *)
(***************************************************************************)
C16_Mach3Instances ==
    (def = "Mach3") =>
        /\ \A i \in Constructed :
              /\ get_inner_context(machine[i]) = hist[i].args
              /\ get_inner_context(machine[i]).id = hist[i].args.id
              /\ state(machine[i]).context.counter = hist[i].moved
              /\ hist[i].moved = hist[i].ok
        /\ (Executed /\ Constructed = Instances) =>
              \A j \in Instances \ {last.inst} :
                  /\ state(machine[j]).context.counter = hist[j].moved
                  /\ get_inner_context(machine[j]).id = hist[j].args.id

\* test3 after its third call: m (id 0) made two transitions, m1 (id 1) one.
C16_Witness ==
    /\ def = "Mach3"
    /\ Constructed = Instances
    /\ get_inner_context(machine["m"]).id = 0
    /\ get_inner_context(machine["m1"]).id = 1
    /\ Executed
    /\ last.inst = "m"
    /\ state(machine["m"]) = Variant("State3", [counter |-> 2])
    /\ state(machine["m1"]) = Variant("State2", [counter |-> 1])

(***************************************************************************)
(* C17. Doc example 2 (states A and B, initial A{counter:0}, no hooks,     *)
(* Next adding 1 to the counter and passing it to the other state): Next   *)
(* is never rejected, and after n Next the machine is in A if n is even,   *)
(* in B if n is odd, with counter n.                                       *)
(***************************************************************************)
C17_SimpleParity ==
    (def = "Simple2") =>
        /\ Executed => last.result = "Ok"
        /\ \A i \in Constructed :
              /\ execute(def, machine[i], "Next").result = "Ok"
              /\ state(machine[i]) =
                    Variant(IF hist[i].ok % 2 = 0 THEN "A" ELSE "B",
                            [counter |-> hist[i].ok])

\* Three Next: B{counter:3}.
C17_Witness ==
    /\ def = "Simple2"
    /\ Executed
    /\ hist[last.inst].ok = 3
    /\ state(machine[last.inst]) = Variant("B", [counter |-> 3])

(***************************************************************************)
(* C18 as stated: what the caller writes to the value the accessor         *)
(* returned is written to the machine context of the instance.             *)
(***************************************************************************)
C18_AccessorWritesThrough ==
    (last.op = "get_inner_context") =>
        get_inner_context(machine[last.inst]) = last.ret

(***************************************************************************)
(* C18, amended.  The accessor returns a copy of the machine context: the  *)
(* caller got the context the machine had, and what it writes to that      *)
(* value between two execute calls stays in the copy.  The machine keeps   *)
(* its context and its state, and every later execute runs its blocks on   *)
(* the context the machine had, with the result it would have had.         *)
(***************************************************************************)
C18_AccessorReturnsCopy ==
    (last.op = "get_inner_context") =>
        /\ last.got = last.pre.context
        /\ machine[last.inst] = last.pre
        /\ get_inner_context(machine[last.inst]) # last.ret
        /\ \A c \in Decl(def).commands :
              LET r == execute(def, machine[last.inst], c)
              IN  /\ r = execute(def, last.pre, c)
                  /\ r.log # <<>> => r.log[1].glob = last.pre.context

\* Between two execute calls the caller changed the value it got from the
\* accessor of a Mach4 whose counter had reached 2.
C18_Witness ==
    /\ last.op = "get_inner_context"
    /\ def = "Mach4"
    /\ hist[last.inst].ok = 2
    /\ last.got.st.counter = 2
    /\ last.ret.st.counter = 0
    /\ get_inner_context(machine[last.inst]).st.counter = 2
    /\ \E c \in Decl(def).commands :
          execute(def, machine[last.inst], c).result = "Ok"

(***************************************************************************)
(* C19. A call of execute does a bounded amount of work and returns: at    *)
(* most one callback, one leave hook, one construction of the next         *)
(* context with one store of it, and one enter hook, in that order and     *)
(* none of them twice, and then Ok or Err.  (The blocks themselves are     *)
(* taken to terminate.)                                                    *)
(***************************************************************************)
C19_ExecuteBoundedWork ==
    Executed =>
        /\ last.result \in {"Ok", "Err"}
        /\ Count(last.log, "callback") <= 1
        /\ Count(last.log, "leave") <= 1
        /\ Count(last.log, "enter") <= 1
        /\ Len(last.log) =
              Count(last.log, "callback") + Count(last.log, "leave")
                                          + Count(last.log, "enter")
        /\ \A j, k \in 1..Len(last.log) :
              (j < k) =>
                  <<last.log[j].hook, last.log[k].hook>> \in
                      { <<"callback", "leave">>, <<"callback", "enter">>,
                        <<"leave", "enter">> }
        /\ Count(last.log, "enter") = Count(last.log, "leave")
        /\ Cardinality({ k \in 1..Len(last.log) :
                           last.log[k].stored # last.pre.state.tag }) <= 1
        /\ last.result = "Err" => last.log = <<>>
        /\ \A c \in Decl(def).commands :
              execute(def, machine[last.inst], c).result \in {"Ok", "Err"}

\* A call that did all of it once: callback, leave, store, enter, Ok.
C19_Witness ==
    /\ Executed
    /\ last.result = "Ok"
    /\ Hooks(last.log) = << <<"callback", "Busy">>, <<"leave", "Busy">>,
                            <<"enter", "Idle">> >>
    /\ last.log[3].stored = "Idle"
    /\ state(machine[last.inst]).tag = "Idle"

(***************************************************************************)
(* C20. In one execute the callback, the leave hook of the old state and   *)
(* the enter hook of the new one work, in that order, on the one machine   *)
(* context of the instance: each starts from what the one before it left   *)
(* and the machine keeps what the last one left.  In Mach4, whose          *)
(* callbacks add 1 to the counter, the leave hook of every transition      *)
(* finds the counter already incremented, and the counter of an instance   *)
(* (constructed with counter 0, as in test4) is the number of its          *)
(* successful transitions.                                                 *)
(***************************************************************************)
C20_OneContextPerCall ==
    /\ (Executed /\ LastReactions # {} /\ LastReaction.target # <<>>) =>
          LET log == last.log
              n   == Len(log)
              s   == last.pre.state.tag
              t   == LastReaction.target[1]
          IN  /\ Hooks(log) = CallbackOf(LastReaction)
                                \o << <<"leave", s>>, <<"enter", t>> >>
              /\ log[1].glob = last.pre.context
              /\ \A k \in 1..(n - 1) : log[k + 1].glob = BlockOf(log[k]).g
              /\ machine[last.inst].context = BlockOf(log[n]).g
    /\ (def = "Mach4") =>
          /\ Executed =>
                \A k \in 1..Len(last.log) :
                    last.log[k].hook \in {"leave", "enter"} =>
                        last.log[k].glob.st.counter =
                            last.pre.context.st.counter + 1
          /\ \A i \in Constructed :
                /\ hist[i].args.st.counter = 0
                /\ hist[i].moved = hist[i].ok
                /\ get_inner_context(machine[i]).st.counter = hist[i].moved

\* The third transition of a Mach4: its leave hook found the counter at 3.
C20_Witness ==
    /\ def = "Mach4"
    /\ Executed
    /\ last.result = "Ok"
    /\ hist[last.inst].moved = 3
    /\ Hooks(last.log) = << <<"callback", "State3">>, <<"leave", "State3">>,
                            <<"enter", "State1">> >>
    /\ last.log[1].glob.st.counter = 2
    /\ last.log[2].glob.st.counter = 3
    /\ get_inner_context(machine[last.inst]).st.counter = 3

(***************************************************************************)
(* C21. An execute whose reaction has a callback and names no new state    *)
(* applies what the callback did to the two contexts to the contexts the   *)
(* machine stores: state() and get_inner_context() return them after the   *)
(* call, the blocks of the next execute start from them, and nothing else  *)
(* changes -- the state tag is the same, no hook ran, and the other        *)
(* instances are as they were.                                             *)
(***************************************************************************)
C21_CallbackInPlace ==
    [][ LET i  == last'.inst
            rs == ReactionsTo(def, machine[i].state.tag, last'.cmd)
        IN  (/\ last'.op = "execute"
             /\ rs # {}
             /\ \A r \in rs : r.callback /\ r.target = <<>>) =>
                LET pre   == machine[i]
                    after == CallbackBlock(def, pre.state.tag, last'.cmd,
                                           pre.state.context, pre.context)
                IN  /\ last'.pre = pre
                    /\ last'.result = "Ok"
                    /\ Hooks(last'.log) = << <<"callback", pre.state.tag>> >>
                    /\ state(machine'[i]) = Variant(pre.state.tag, after.ctx)
                    /\ get_inner_context(machine'[i]) = after.g
                    /\ machine'[i] = [state   |-> Variant(pre.state.tag, after.ctx),
                                      context |-> after.g]
                    /\ \A c \in Decl(def).commands :
                          LET r == execute(def, machine'[i], c)
                          IN  r.log # <<>> =>
                                  /\ r.log[1].ctx = after.ctx
                                  /\ r.log[1].glob = after.g
                    /\ DOMAIN machine' = DOMAIN machine
                    /\ \A j \in DOMAIN machine \ {i} : machine'[j] = machine[j]
                    /\ def' = def
      ]_vars

\* Tally in Idle{n:1} on a second Tick: n is 2 and total one more, in Idle still.
C21_Witness ==
    /\ def = "Tally"
    /\ Executed /\ last.cmd = "Tick" /\ last.result = "Ok"
    /\ last.pre.state = Variant("Idle", [n |-> 1])
    /\ state(machine[last.inst]) = Variant("Idle", [n |-> 2])
    /\ get_inner_context(machine[last.inst]).total = last.pre.context.total + 1
    /\ execute(def, machine[last.inst], "Tick").m.state.context.n = 3

(***************************************************************************)
(* C22. A reaction with neither callback nor new state (Mach1 Operational: *)
(* ConfigureDone =>;) is not a missing reaction: execute returns Ok where  *)
(* a command without reaction returns Err, runs no block and no hook, and  *)
(* leaves the state tag, the state context and the machine context as they *)
(* were; given again, any number of times in a row, the command returns Ok *)
(* again and the machine stays as it was.                                  *)
(***************************************************************************)
C22_EmptyReactionIsOk ==
    /\ (/\ Executed
        /\ LastReactions # {}
        /\ \A r \in LastReactions : ~r.callback /\ r.target = <<>>) =>
          LET m     == machine[last.inst]
              once  == execute(def, m, last.cmd)
              twice == execute(def, once.m, last.cmd)
          IN  /\ last.result = "Ok"
              /\ last.log = <<>>
              /\ m = last.pre
              /\ state(m) = state(last.pre)
              /\ get_inner_context(m) = get_inner_context(last.pre)
              /\ once = [m |-> m, result |-> "Ok", log |-> <<>>]
              /\ twice = once
              /\ \A c \in Decl(def).commands :
                    ReactionsTo(def, m.state.tag, c) = {} =>
                        execute(def, m, c).result = "Err"
    /\ \A i \in Constructed :
          \A c \in Decl(def).commands :
              LET rs == ReactionsTo(def, machine[i].state.tag, c)
                  r  == execute(def, machine[i], c)
              IN  (rs # {} /\ \A x \in rs : ~x.callback /\ x.target = <<>>) =>
                      /\ r.result = "Ok"
                      /\ r.m = machine[i]
                      /\ r.log = <<>>

\* Mach1 in Operational took ConfigureDone twice in a row (the last two calls
\* of test1): Ok both times, Operational{} still, while Configure has no reaction.
C22_Witness ==
    /\ def = "Mach1"
    /\ Executed /\ last.cmd = "ConfigureDone" /\ last.result = "Ok"
    /\ last.pre.state = Variant("Operational", Unit)
    /\ state(machine[last.inst]) = Variant("Operational", Unit)
    /\ hist[last.inst].ok = 4
    /\ hist[last.inst].moved = 2
    /\ execute(def, machine[last.inst], "Configure").result = "Err"

=============================================================================
